---- MODULE Spec2Model ----
(***************************************************************************)
(* Blood-drive donor flow server (express + lowdb + socket.io).            *)
(*                                                                         *)
(* The model follows the request handlers of the server: every handler     *)
(* runs to completion on the single JavaScript thread (its only await is   *)
(* on save(), whose promise is resolved by microtasks before any other     *)
(* request or timer callback can run), so one handler is one action.       *)
(* Timer callbacks (write, broadcast) are actions of their own. The        *)
(* response of a handler is an output, not state: each handler is an       *)
(* operator that yields the store it leaves, the response it sends and     *)
(* whether it reached save(), and the handler's action applies it.         *)
(***************************************************************************)
EXTENDS Integers, Sequences, FiniteSets, TLC

VARIABLES
    db,               \* db.data: [donors |-> sequence of donor objects, meta |-> ...]
    clock,            \* the wall clock read by now(), in abstract milliseconds
    idSeq,            \* number of ids drawn from nanoid so far (ids never repeat)
    req,              \* the last request that reached save(): its route and its id
    _writeTimer,      \* TRUE iff the write timer handle is set (not null)
    _broadcastTimer,  \* TRUE iff the broadcast timer handle is set (not null)
    disk,             \* the content of db.json: the last snapshot written
    left,             \* events the model still lets the run take
    writeTimers,      \* setTimeout callbacks of writeCoalesced the event loop holds
    broadcastTimers,  \* setTimeout callbacks of broadcastCoalesced the event loop holds
    alive,            \* the process is running
    issued,           \* the DonorIDs the register calls of this run have returned
    writeDue,         \* the time the pending write timer was set for
    broadcastDue,     \* the time the pending broadcast timer was set for
    wire              \* the last 'state' message emitted to the clients, if any

vars == <<db, clock, idSeq, req, _writeTimer, _broadcastTimer, disk, left,
          writeTimers, broadcastTimers, alive, issued, writeDue, broadcastDue, wire>>

(***************************************************************************)
(* Program constants.                                                      *)
(***************************************************************************)
MAX_BEDS == 6
MAX_QUEUE == 6
PRE_STRICT == 4
WALK_STRICT == 2
\* the delays of the setTimeout calls of writeCoalesced and broadcastCoalesced
WRITE_DELAY == 80
BROADCAST_DELAY == 80

(***************************************************************************)
(* Bounds of the model.                                                    *)
(***************************************************************************)
\* events (requests that save, timer callbacks, clock ticks) of a run that
\* starts from a loaded snapshot
MaxSteps == 2
\* events of a run that starts from the fresh store
MaxFreshSteps == 6
\* the time at which the process starts; what a loaded snapshot holds
\* happened before it
LoadedClock == 4
\* milliseconds that pass in one run
MaxTicks == 1

\* a field a JavaScript object does not have (undefined / null)
Unset == -1

Max(a, b) == IF a > b THEN a ELSE b

\* now(): the current time
now == clock

\* String(n) for n >= 0: the decimal numeral
String(n) == ToString(n)

\* freshData(): the empty store
freshData ==
    [donors |-> <<>>, meta |-> [nextDonorNo |-> 1, lastBatch |-> 0, batches |-> <<>>]]

(***************************************************************************)
(* Queries on the store.                                                   *)
(***************************************************************************)
\* Array.prototype.filter: the positions i of ds with pred[i], in store order
RECURSIVE FilterIdx(_, _, _)
FilterIdx(ds, pred, i) ==
    IF i > Len(ds) THEN <<>>
    ELSE (IF pred[i] THEN <<i>> ELSE <<>>) \o FilterIdx(ds, pred, i + 1)

\* donorsBy(pred): positions (in store order) of the donors that satisfy pred
donorsBy(ds, pred) == FilterIdx(ds, pred, 1)

\* the filter callbacks, each as the value it returns at every position of ds
IsInBed(ds) == [i \in DOMAIN ds |-> ds[i].Status = "Donation-In-Progress"]
IsQueued(ds) == [i \in DOMAIN ds |-> ds[i].Status = "Donation-Queue"]
IsQueuedPre(ds) ==
    [i \in DOMAIN ds |-> ds[i].Status = "Donation-Queue" /\ ds[i].PreRegistered]
IsQueuedWalk(ds) ==
    [i \in DOMAIN ds |-> ds[i].Status = "Donation-Queue" /\ ~ds[i].PreRegistered]

bedsInUse(ds) == Len(donorsBy(ds, IsInBed(ds)))
\* (variant: one bed too many is counted free)
bedsAvailOffByOne(ds) == Max(0, MAX_BEDS + 1 - bedsInUse(ds))

bedsAvail(ds) == Max(0, MAX_BEDS - bedsInUse(ds))
countQueue(ds) == Len(donorsBy(ds, IsQueued(ds)))

\* donors.find(x => x.id === id): the first position holding id, 0 when none
RECURSIVE FindFrom(_, _, _)
FindFrom(ds, id, i) ==
    IF i > Len(ds) THEN 0
    ELSE IF ds[i].id = id THEN i
    ELSE FindFrom(ds, id, i + 1)

find(ds, id) == FindFrom(ds, id, 1)

(***************************************************************************)
(* Responses. A handler answers its request with exactly one response.     *)
(***************************************************************************)
NoBody ==
    [code |-> 200, error |-> "", ok |-> FALSE, moved |-> Unset, reason |-> "",
     donor |-> <<>>]

\* res.status(code).json({ error: msg })
ErrorRes(code, msg) == [NoBody EXCEPT !.code = code, !.error = msg]

\* res.json(d)
DonorRes(d) == [NoBody EXCEPT !.donor = <<d>>]

\* res.json({ moved }) and res.json({ moved: 0, reason: 'no_bed' })
MovedRes(n, why) == [NoBody EXCEPT !.moved = n, !.reason = why]

\* res.json({ ok: true, moved: 1 }) and res.json({ ok: true })
OkRes(n) == [NoBody EXCEPT !.ok = TRUE, !.moved = n]

\* what one run of a handler does: the store it leaves, the response it sends,
\* and whether it got as far as save()
Outcome(data, response, saved) == [db |-> data, res |-> response, saved |-> saved]

(***************************************************************************)
(* Write and broadcast coalescing.                                         *)
(***************************************************************************)
\* lightDonor(d): the fields of a donor that are broadcast
lightDonor(d) ==
    [id |-> d.id,
     DonorID |-> d.DonorID,
     FullName |-> d.FullName,
     PreRegistered |-> d.PreRegistered,
     Status |-> d.Status,
     ScreeningStatus |-> d.ScreeningStatus,
     RegisteredAt |-> d.RegisteredAt,
     ApprovedAt |-> d.ApprovedAt,
     DonationStartAt |-> d.DonationStartAt]

\* lightState(): the reduced view of the store data
lightState(data) ==
    [donors |-> [i \in 1..Len(data.donors) |-> lightDonor(data.donors[i])],
     meta |-> data.meta]

\* (variant: the write is awaited where it is requested)
writeCoalescedAwaited ==
    /\ disk' = db'
    /\ UNCHANGED <<_writeTimer, writeTimers, writeDue>>

\* (variant: a pending timer is cleared and set again, a trailing debounce)
writeCoalescedRestarts ==
    /\ _writeTimer' = TRUE
    /\ writeTimers' = (IF _writeTimer THEN writeTimers ELSE writeTimers + 1)
    /\ writeDue' = now + WRITE_DELAY
    /\ UNCHANGED disk

\* writeCoalesced(): set the write timer unless one is pending
writeCoalesced ==
    /\ _writeTimer' = (IF _writeTimer THEN _writeTimer ELSE TRUE)
    /\ writeTimers' = (IF _writeTimer THEN writeTimers ELSE writeTimers + 1)
    /\ writeDue' = (IF _writeTimer THEN writeDue ELSE now + WRITE_DELAY)
    /\ UNCHANGED disk

\* (variant: a timer is set whether or not one is pending)
broadcastCoalescedUnguarded ==
    /\ _broadcastTimer' = TRUE
    /\ broadcastTimers' = broadcastTimers + 1
    /\ broadcastDue' = now + BROADCAST_DELAY

\* broadcastCoalesced(): set the broadcast timer unless one is pending
broadcastCoalesced ==
    /\ _broadcastTimer' = (IF _broadcastTimer THEN _broadcastTimer ELSE TRUE)
    /\ broadcastTimers' = (IF _broadcastTimer THEN broadcastTimers ELSE broadcastTimers + 1)
    /\ broadcastDue' = (IF _broadcastTimer THEN broadcastDue ELSE now + BROADCAST_DELAY)

\* (variant: every save writes and broadcasts at once, no timers)
saveDirect ==
    /\ disk' = db'
    /\ UNCHANGED <<_writeTimer, writeTimers, _broadcastTimer, broadcastTimers,
                   writeDue, broadcastDue>>

\* (variant: the broadcast is not requested)
saveWriteOnly ==
    /\ writeCoalesced
    /\ UNCHANGED <<_broadcastTimer, broadcastTimers, broadcastDue>>

\* save(): await writeCoalesced(); broadcastCoalesced()
save == writeCoalesced /\ broadcastCoalesced

\* one event of the running process is taken from the budget of the run
Step == alive /\ left > 0 /\ left' = left - 1

\* A request whose handler returns before save() changes no variable: the
\* step of a handler is the request that reaches save(). Its store is the
\* handler's outcome.
Serve(route, id, out) ==
    /\ Step
    /\ out.saved
    /\ db' = out.db
    /\ req' = [op |-> route, id |-> id]
    /\ save
    /\ UNCHANGED <<clock, alive, wire>>

(***************************************************************************)
(* Inputs.                                                                 *)
(***************************************************************************)
FullNames == {"", "Ann"}
Reasons == {"", "low hb"}
\* request ids: 0 is an id nanoid never produced, the others were produced
ReqIds == 0..idSeq

(***************************************************************************)
(* POST /api/register                                                      *)
(***************************************************************************)
NewDonor(id, no, FullName, PreRegistered) ==
    [id |-> id,
     DonorID |-> String(no),
     FullName |-> FullName,
     PreRegistered |-> PreRegistered,
     Status |-> "Waiting",
     ScreeningStatus |-> "Not-Started",
     PhotoPrinted |-> FALSE,
     RiceBagGiven |-> FALSE,
     PhotoGiven |-> FALSE,
     RegisteredAt |-> now,
     ScreeningStartAt |-> Unset,
     ApprovedAt |-> Unset,
     RejectedAt |-> Unset,
     RejectionReason |-> "",
     DonationStartAt |-> Unset,
     RecoveryStartAt |-> Unset,
     RecoveryEndAt |-> Unset,
     CompletedAt |-> Unset]

\* (variant: the donor number is advanced before it is read)
registerPreIncrement(FullName, PreRegistered) ==
    IF FullName = ""
    THEN Outcome(db, ErrorRes(400, "Full Name required"), FALSE)
    ELSE LET donor == NewDonor(idSeq + 1, db.meta.nextDonorNo + 1, FullName, PreRegistered)
         IN Outcome([db EXCEPT !.meta.nextDonorNo = @ + 1,
                               !.donors = Append(@, donor)],
                    DonorRes(donor), TRUE)

\* (variant: the donor number is drawn before the name is validated)
registerDrawsFirst(FullName, PreRegistered) ==
    LET data == [db EXCEPT !.meta.nextDonorNo = @ + 1]
    IN IF FullName = ""
       THEN Outcome(data, ErrorRes(400, "Full Name required"), FALSE)
       ELSE LET donor == NewDonor(idSeq + 1, db.meta.nextDonorNo, FullName, PreRegistered)
            IN Outcome([data EXCEPT !.donors = Append(@, donor)], DonorRes(donor), TRUE)

\* (variant: the donor number is read but not advanced)
registerSameNumber(FullName, PreRegistered) ==
    IF FullName = ""
    THEN Outcome(db, ErrorRes(400, "Full Name required"), FALSE)
    ELSE LET donor == NewDonor(idSeq + 1, db.meta.nextDonorNo, FullName, PreRegistered)
         IN Outcome([db EXCEPT !.donors = Append(@, donor)], DonorRes(donor), TRUE)

register(FullName, PreRegistered) ==
    IF FullName = ""
    THEN Outcome(db, ErrorRes(400, "Full Name required"), FALSE)
    ELSE LET donor == NewDonor(idSeq + 1, db.meta.nextDonorNo, FullName, PreRegistered)
         IN Outcome([db EXCEPT !.meta.nextDonorNo = @ + 1,
                               !.donors = Append(@, donor)],
                    DonorRes(donor), TRUE)

Register(FullName, PreRegistered) ==
    /\ Serve("register", idSeq + 1, register(FullName, PreRegistered))
    /\ idSeq' = idSeq + 1
    /\ issued' = issued \cup {register(FullName, PreRegistered).res.donor[1].DonorID}

(***************************************************************************)
(* POST /api/action/send-to-screening                                      *)
(***************************************************************************)
sendToScreening(id) ==
    LET i == find(db.donors, id)
    IN IF i = 0 THEN Outcome(db, ErrorRes(404, "Not found"), FALSE)
       ELSE IF db.donors[i].Status # "Waiting"
       THEN Outcome(db, ErrorRes(409, "Not in Waiting"), FALSE)
       ELSE LET d == [db.donors[i] EXCEPT !.Status = "Screening",
                                          !.ScreeningStatus = "In-Progress",
                                          !.ScreeningStartAt = now]
            IN Outcome([db EXCEPT !.donors[i] = d], DonorRes(d), TRUE)

SendToScreening(id) == Serve("send-to-screening", id, sendToScreening(id)) /\ UNCHANGED <<idSeq, issued>>

(***************************************************************************)
(* POST /api/action/approve                                                *)
(***************************************************************************)
\* (variant: the screening status is left as it was)
approveKeepsScreening(id) ==
    IF countQueue(db.donors) >= MAX_QUEUE
    THEN Outcome(db, ErrorRes(409, "Chairs full (6). Move some to beds first."), FALSE)
    ELSE LET i == find(db.donors, id)
         IN IF i = 0 THEN Outcome(db, ErrorRes(404, "Not found"), FALSE)
            ELSE IF db.donors[i].Status # "Screening"
            THEN Outcome(db, ErrorRes(409, "Not in Screening"), FALSE)
            ELSE LET d == [db.donors[i] EXCEPT !.Status = "Donation-Queue",
                                               !.ApprovedAt = now]
                 IN Outcome([db EXCEPT !.donors[i] = d], DonorRes(d), TRUE)

\* (variant: the chairs are never counted)
approveUncounted(id) ==
    LET i == find(db.donors, id)
    IN IF i = 0 THEN Outcome(db, ErrorRes(404, "Not found"), FALSE)
       ELSE IF db.donors[i].Status # "Screening"
       THEN Outcome(db, ErrorRes(409, "Not in Screening"), FALSE)
       ELSE LET d == [db.donors[i] EXCEPT !.ScreeningStatus = "Eligible",
                                          !.Status = "Donation-Queue",
                                          !.ApprovedAt = now]
            IN Outcome([db EXCEPT !.donors[i] = d], DonorRes(d), TRUE)

\* (variant: the chairs count as full only above MAX_QUEUE)
approveOffByOne(id) ==
    IF countQueue(db.donors) > MAX_QUEUE
    THEN Outcome(db, ErrorRes(409, "Chairs full (6). Move some to beds first."), FALSE)
    ELSE LET i == find(db.donors, id)
         IN IF i = 0 THEN Outcome(db, ErrorRes(404, "Not found"), FALSE)
            ELSE IF db.donors[i].Status # "Screening"
            THEN Outcome(db, ErrorRes(409, "Not in Screening"), FALSE)
            ELSE LET d == [db.donors[i] EXCEPT !.ScreeningStatus = "Eligible",
                                               !.Status = "Donation-Queue",
                                               !.ApprovedAt = now]
                 IN Outcome([db EXCEPT !.donors[i] = d], DonorRes(d), TRUE)

approve(id) ==
    IF countQueue(db.donors) >= MAX_QUEUE
    THEN Outcome(db, ErrorRes(409, "Chairs full (6). Move some to beds first."), FALSE)
    ELSE LET i == find(db.donors, id)
         IN IF i = 0 THEN Outcome(db, ErrorRes(404, "Not found"), FALSE)
            ELSE IF db.donors[i].Status # "Screening"
            THEN Outcome(db, ErrorRes(409, "Not in Screening"), FALSE)
            ELSE LET d == [db.donors[i] EXCEPT !.ScreeningStatus = "Eligible",
                                               !.Status = "Donation-Queue",
                                               !.ApprovedAt = now]
                 IN Outcome([db EXCEPT !.donors[i] = d], DonorRes(d), TRUE)

Approve(id) == Serve("approve", id, approve(id)) /\ UNCHANGED <<idSeq, issued>>

(***************************************************************************)
(* POST /api/action/reject                                                 *)
(***************************************************************************)
reject(id, reason) ==
    LET i == find(db.donors, id)
    IN IF i = 0 THEN Outcome(db, ErrorRes(404, "Not found"), FALSE)
       ELSE IF db.donors[i].Status # "Screening"
       THEN Outcome(db, ErrorRes(409, "Not in Screening"), FALSE)
       ELSE LET d == [db.donors[i] EXCEPT !.ScreeningStatus = "Rejected",
                                          !.Status = "Rejected",
                                          !.RejectionReason = reason,
                                          !.RejectedAt = now,
                                          !.PhotoPrinted = FALSE]
            IN Outcome([db EXCEPT !.donors[i] = d], DonorRes(d), TRUE)

Reject(id, reason) == Serve("reject", id, reject(id, reason)) /\ UNCHANGED <<idSeq, issued>>

(***************************************************************************)
(* POST /api/action/move-to-bed                                            *)
(***************************************************************************)
\* d.Status = 'Donation-In-Progress'; d.DonationStartAt = now()
ToBed(d) == [d EXCEPT !.Status = "Donation-In-Progress", !.DonationStartAt = now]

\* (variant: the test of the free beds is inverted)
moveToBedInverted(id) ==
    LET i == find(db.donors, id)
    IN IF i = 0 THEN Outcome(db, ErrorRes(404, "Not found"), FALSE)
       ELSE IF db.donors[i].Status # "Donation-Queue"
       THEN Outcome(db, ErrorRes(409, "Not in Chairs"), FALSE)
       ELSE IF bedsAvail(db.donors) > 0
       THEN Outcome(db, ErrorRes(409, "No bed available"), FALSE)
       ELSE Outcome([db EXCEPT !.donors[i] = ToBed(@)], OkRes(1), TRUE)

moveToBed(id) ==
    LET i == find(db.donors, id)
    IN IF i = 0 THEN Outcome(db, ErrorRes(404, "Not found"), FALSE)
       ELSE IF db.donors[i].Status # "Donation-Queue"
       THEN Outcome(db, ErrorRes(409, "Not in Chairs"), FALSE)
       ELSE IF bedsAvail(db.donors) <= 0
       THEN Outcome(db, ErrorRes(409, "No bed available"), FALSE)
       ELSE Outcome([db EXCEPT !.donors[i] = ToBed(@)], OkRes(1), TRUE)

MoveToBed(id) == Serve("move-to-bed", id, moveToBed(id)) /\ UNCHANGED <<idSeq, issued>>

(***************************************************************************)
(* byDate(arr, 'ApprovedAt'): Array.prototype.sort with the comparator     *)
(* new Date(a[key]||0) - new Date(b[key]||0). The sort is stable, so       *)
(* donors with equal keys keep their store order.                          *)
(***************************************************************************)
\* new Date(d.ApprovedAt || 0) as milliseconds: a missing field reads as 0
DateKey(d) == IF d.ApprovedAt = Unset THEN 0 ELSE d.ApprovedAt

\* position p put into the sorted list s behind every element that is not later
RECURSIVE InsertByDate(_, _, _)
InsertByDate(ds, s, p) ==
    IF s = <<>> THEN <<p>>
    ELSE IF DateKey(ds[p]) < DateKey(ds[Head(s)]) THEN <<p>> \o s
    ELSE <<Head(s)>> \o InsertByDate(ds, Tail(s), p)

RECURSIVE SortByDate(_, _, _)
SortByDate(ds, arr, acc) ==
    IF arr = <<>> THEN acc
    ELSE SortByDate(ds, Tail(arr), InsertByDate(ds, acc, Head(arr)))

\* (variant: the list is left in store order)
byDateUnsorted(ds, arr) == arr

byDate(ds, arr) == SortByDate(ds, arr, <<>>)

(***************************************************************************)
(* POST /api/action/fill-beds-fifo                                         *)
(***************************************************************************)
\* (variant: the loop is left after its first round)
FifoLoopOnce(ds, anyQ, avail, moved) ==
    IF avail > 0 /\ Len(anyQ) > 0
    THEN [donors |-> [ds EXCEPT ![Head(anyQ)] = ToBed(@)], moved |-> moved + 1]
    ELSE [donors |-> ds, moved |-> moved]

\* while (avail > 0 && anyQ.length) { d = anyQ.shift(); ...; avail--; moved++ }
RECURSIVE FifoLoop(_, _, _, _)
FifoLoop(ds, anyQ, avail, moved) ==
    IF avail > 0 /\ Len(anyQ) > 0
    THEN FifoLoop([ds EXCEPT ![Head(anyQ)] = ToBed(@)], Tail(anyQ), avail - 1, moved + 1)
    ELSE [donors |-> ds, moved |-> moved]

fillBedsFifo ==
    LET avail == bedsAvail(db.donors)
    IN IF avail <= 0 THEN Outcome(db, MovedRes(0, ""), FALSE)
       ELSE LET anyQ == byDate(db.donors, donorsBy(db.donors, IsQueued(db.donors)))
                out == FifoLoop(db.donors, anyQ, avail, 0)
            IN Outcome([db EXCEPT !.donors = out.donors], MovedRes(out.moved, ""), TRUE)

FillBedsFifo == Serve("fill-beds-fifo", 0, fillBedsFifo) /\ UNCHANGED <<idSeq, issued>>

(***************************************************************************)
(* POST /api/action/fill-beds-4p2                                          *)
(***************************************************************************)
\* for (let i = 0; i < n && avail > 0; i++) take(arr)
RECURSIVE TakeLoop(_, _, _, _, _, _)
TakeLoop(ds, arr, avail, moved, i, n) ==
    IF i < n /\ avail > 0
    THEN IF avail <= 0 \/ Len(arr) = 0
         THEN TakeLoop(ds, arr, avail, moved, i + 1, n)
         ELSE TakeLoop([ds EXCEPT ![Head(arr)] = ToBed(@)], Tail(arr),
                       avail - 1, moved + 1, i + 1, n)
    ELSE [donors |-> ds, avail |-> avail, moved |-> moved]

\* (variant: the request is refused only when both sub-queues are short)
fillBedsQuotaBothShort ==
    LET avail == bedsAvail(db.donors)
    IN IF avail <= 0 THEN Outcome(db, MovedRes(0, "no_bed"), FALSE)
       ELSE LET preQ == byDate(db.donors, donorsBy(db.donors, IsQueuedPre(db.donors)))
                walkQ == byDate(db.donors, donorsBy(db.donors, IsQueuedWalk(db.donors)))
            IN IF Len(preQ) < PRE_STRICT /\ Len(walkQ) < WALK_STRICT
               THEN Outcome(db, ErrorRes(409, "Need at least 4 pre-reg and 2 walk-in in chairs"),
                            FALSE)
               ELSE LET pre == TakeLoop(db.donors, preQ, avail, 0, 0, PRE_STRICT)
                        walk == TakeLoop(pre.donors, walkQ, pre.avail, pre.moved,
                                         0, WALK_STRICT)
                    IN Outcome([db EXCEPT !.donors = walk.donors],
                               MovedRes(walk.moved, ""), TRUE)

\* (variant: the walk-ins are taken before the pre-registered)
fillBedsQuotaWalkFirst ==
    LET avail == bedsAvail(db.donors)
    IN IF avail <= 0 THEN Outcome(db, MovedRes(0, "no_bed"), FALSE)
       ELSE LET preQ == byDate(db.donors, donorsBy(db.donors, IsQueuedPre(db.donors)))
                walkQ == byDate(db.donors, donorsBy(db.donors, IsQueuedWalk(db.donors)))
            IN IF Len(preQ) < PRE_STRICT \/ Len(walkQ) < WALK_STRICT
               THEN Outcome(db, ErrorRes(409, "Need at least 4 pre-reg and 2 walk-in in chairs"),
                            FALSE)
               ELSE LET walk == TakeLoop(db.donors, walkQ, avail, 0, 0, WALK_STRICT)
                        pre == TakeLoop(walk.donors, preQ, walk.avail, walk.moved,
                                        0, PRE_STRICT)
                    IN Outcome([db EXCEPT !.donors = pre.donors],
                               MovedRes(pre.moved, ""), TRUE)

fillBedsQuota ==
    LET avail == bedsAvail(db.donors)
    IN IF avail <= 0 THEN Outcome(db, MovedRes(0, "no_bed"), FALSE)
       ELSE LET preQ == byDate(db.donors, donorsBy(db.donors, IsQueuedPre(db.donors)))
                walkQ == byDate(db.donors, donorsBy(db.donors, IsQueuedWalk(db.donors)))
            IN IF Len(preQ) < PRE_STRICT \/ Len(walkQ) < WALK_STRICT
               THEN Outcome(db, ErrorRes(409, "Need at least 4 pre-reg and 2 walk-in in chairs"),
                            FALSE)
               ELSE LET pre == TakeLoop(db.donors, preQ, avail, 0, 0, PRE_STRICT)
                        walk == TakeLoop(pre.donors, walkQ, pre.avail, pre.moved,
                                         0, WALK_STRICT)
                    IN Outcome([db EXCEPT !.donors = walk.donors],
                               MovedRes(walk.moved, ""), TRUE)

FillBeds4p2 == Serve("fill-beds-4p2", 0, fillBedsQuota) /\ UNCHANGED <<idSeq, issued>>

(***************************************************************************)
(* POST /api/action/to-recovery                                            *)
(***************************************************************************)
\* (variant: the bed that is freed is given to the first donor in the chairs)
toRecoveryRefills(id) ==
    LET i == find(db.donors, id)
    IN IF i = 0 THEN Outcome(db, ErrorRes(404, "Not found"), FALSE)
       ELSE IF db.donors[i].Status # "Donation-In-Progress"
       THEN Outcome(db, ErrorRes(409, "Not in bed"), FALSE)
       ELSE LET d == [db.donors[i] EXCEPT !.Status = "Recovery",
                                          !.RecoveryStartAt = now]
                ds == [db.donors EXCEPT ![i] = d]
                anyQ == donorsBy(ds, IsQueued(ds))
            IN Outcome([db EXCEPT !.donors =
                            IF Len(anyQ) = 0 THEN ds
                            ELSE [ds EXCEPT ![Head(anyQ)] = ToBed(@)]],
                       DonorRes(d), TRUE)

toRecovery(id) ==
    LET i == find(db.donors, id)
    IN IF i = 0 THEN Outcome(db, ErrorRes(404, "Not found"), FALSE)
       ELSE IF db.donors[i].Status # "Donation-In-Progress"
       THEN Outcome(db, ErrorRes(409, "Not in bed"), FALSE)
       ELSE LET d == [db.donors[i] EXCEPT !.Status = "Recovery",
                                          !.RecoveryStartAt = now]
            IN Outcome([db EXCEPT !.donors[i] = d], DonorRes(d), TRUE)

ToRecovery(id) == Serve("to-recovery", id, toRecovery(id)) /\ UNCHANGED <<idSeq, issued>>

(***************************************************************************)
(* POST /api/action/recovered                                              *)
(***************************************************************************)
\* (variant: the start of the recovery is stamped again)
recoveredRestamps(id) ==
    LET i == find(db.donors, id)
    IN IF i = 0 THEN Outcome(db, ErrorRes(404, "Not found"), FALSE)
       ELSE IF db.donors[i].Status # "Recovery"
       THEN Outcome(db, ErrorRes(409, "Not in Recovery"), FALSE)
       ELSE LET d == [db.donors[i] EXCEPT !.Status = "Recovered",
                                          !.RecoveryStartAt = now,
                                          !.RecoveryEndAt = now]
            IN Outcome([db EXCEPT !.donors[i] = d], DonorRes(d), TRUE)

recovered(id) ==
    LET i == find(db.donors, id)
    IN IF i = 0 THEN Outcome(db, ErrorRes(404, "Not found"), FALSE)
       ELSE IF db.donors[i].Status # "Recovery"
       THEN Outcome(db, ErrorRes(409, "Not in Recovery"), FALSE)
       ELSE LET d == [db.donors[i] EXCEPT !.Status = "Recovered",
                                          !.RecoveryEndAt = now]
            IN Outcome([db EXCEPT !.donors[i] = d], DonorRes(d), TRUE)

Recovered(id) == Serve("recovered", id, recovered(id)) /\ UNCHANGED <<idSeq, issued>>

(***************************************************************************)
(* POST /api/action/complete                                               *)
(***************************************************************************)
\* (variant: the photo is not marked as given)
completeKeepsPhoto(id) ==
    LET i == find(db.donors, id)
    IN IF i = 0 THEN Outcome(db, ErrorRes(404, "Not found"), FALSE)
       ELSE IF db.donors[i].Status # "Recovered" /\ db.donors[i].Status # "Recovery"
       THEN Outcome(db, ErrorRes(409, "Not ready"), FALSE)
       ELSE LET d == [db.donors[i] EXCEPT !.Status = "Completed & Left",
                                          !.RiceBagGiven = TRUE,
                                          !.PhotoPrinted = TRUE,
                                          !.CompletedAt = now]
            IN Outcome([db EXCEPT !.donors[i] = d], DonorRes(d), TRUE)

\* (variant: a donor still in bed is accepted too)
completeFromBed(id) ==
    LET i == find(db.donors, id)
    IN IF i = 0 THEN Outcome(db, ErrorRes(404, "Not found"), FALSE)
       ELSE IF /\ db.donors[i].Status # "Recovered"
               /\ db.donors[i].Status # "Recovery"
               /\ db.donors[i].Status # "Donation-In-Progress"
       THEN Outcome(db, ErrorRes(409, "Not ready"), FALSE)
       ELSE LET d == [db.donors[i] EXCEPT !.Status = "Completed & Left",
                                          !.RiceBagGiven = TRUE,
                                          !.PhotoGiven = TRUE,
                                          !.PhotoPrinted = TRUE,
                                          !.CompletedAt = now]
            IN Outcome([db EXCEPT !.donors[i] = d], DonorRes(d), TRUE)

complete(id) ==
    LET i == find(db.donors, id)
    IN IF i = 0 THEN Outcome(db, ErrorRes(404, "Not found"), FALSE)
       ELSE IF db.donors[i].Status # "Recovered" /\ db.donors[i].Status # "Recovery"
       THEN Outcome(db, ErrorRes(409, "Not ready"), FALSE)
       ELSE LET d == [db.donors[i] EXCEPT !.Status = "Completed & Left",
                                          !.RiceBagGiven = TRUE,
                                          !.PhotoGiven = TRUE,
                                          !.PhotoPrinted = TRUE,
                                          !.CompletedAt = now]
            IN Outcome([db EXCEPT !.donors[i] = d], DonorRes(d), TRUE)

Complete(id) == Serve("complete", id, complete(id)) /\ UNCHANGED <<idSeq, issued>>

(***************************************************************************)
(* POST /api/reset                                                         *)
(***************************************************************************)
\* (variant: the donors are dropped and the metadata is kept)
resetKeepsMeta == Outcome([db EXCEPT !.donors = <<>>], OkRes(Unset), TRUE)

reset == Outcome(freshData, OkRes(Unset), TRUE)

Reset == Serve("reset", 0, reset) /\ UNCHANGED <<idSeq, issued>>

(***************************************************************************)
(* Timer callbacks and the passing of time.                                *)
(***************************************************************************)
\* the body of the write timer's callback after it has cleared the handle:
\* try { await db.write() } catch (e) { console.error(...) }. db.write()
\* serialises db.data when it is called; a failed write is logged and leaves
\* the file as it was
\* (variant: no try/catch around the write and nothing catches the rejection)
writeCallbackUncaught(ok) ==
    [disk |-> IF ok THEN db ELSE disk,
     alive |-> ok]

writeCallback(ok) ==
    [disk |-> IF ok THEN db ELSE disk,
     alive |-> TRUE]

\* the write timer's callback runs: _writeTimer = null, then its body
WriteTimerRuns(ok) ==
    /\ writeTimers > 0
    /\ writeTimers' = writeTimers - 1
    /\ _writeTimer' = FALSE
    /\ writeDue' = Unset
    /\ disk' = writeCallback(ok).disk
    /\ alive' = writeCallback(ok).alive
    /\ UNCHANGED <<db, clock, idSeq, req, _broadcastTimer, broadcastTimers, issued,
                   broadcastDue, wire>>

\* the write timer fires, as one event of the run's budget
WriteTimerFires(ok) == Step /\ WriteTimerRuns(ok)

\* the body of the broadcast timer's callback after it has cleared the handle:
\* try { io.emit('state', lightState()) } catch (e) { console.error(...) }
broadcastCallback(ok) ==
    [wire |-> IF ok THEN <<lightState(db)>> ELSE wire,
     alive |-> TRUE]

\* the broadcast timer's callback runs: _broadcastTimer = null, then its body
BroadcastTimerRuns(ok) ==
    /\ broadcastTimers > 0
    /\ broadcastTimers' = broadcastTimers - 1
    /\ _broadcastTimer' = FALSE
    /\ broadcastDue' = Unset
    /\ wire' = broadcastCallback(ok).wire
    /\ alive' = broadcastCallback(ok).alive
    /\ UNCHANGED <<db, clock, idSeq, req, _writeTimer, writeTimers, disk, issued,
                   writeDue>>

\* the broadcast timer fires, as one event of the run's budget
BroadcastTimerFires(ok) == Step /\ BroadcastTimerRuns(ok)

\* a millisecond passes
Tick ==
    /\ Step
    /\ clock < LoadedClock + MaxTicks
    /\ clock' = clock + 1
    /\ UNCHANGED <<db, idSeq, req, _writeTimer, _broadcastTimer, disk, writeTimers,
                   broadcastTimers, alive, issued, writeDue, broadcastDue, wire>>

(***************************************************************************)
(* The store after start-up. safeRead() loads db.json: freshData() on a    *)
(* fresh data directory, otherwise the snapshot the previous process       *)
(* wrote. The snapshots below are stores that runs from the empty store    *)
(* produce: the donors are registered at time 1 in store order; the donors *)
(* of Past are then served one after the other up to their status, the     *)
(* donors of Beds are approved and moved to a bed one after the other, the *)
(* donors of Queue are approved in the order of their ApprovedAt while the *)
(* clock runs to LoadedClock, and the donors of Arrivals are sent to       *)
(* screening or left waiting. No step of such a run finds the chairs or    *)
(* the beds full.                                                          *)
(***************************************************************************)
\* the donor object of donor number k with the given status, as the handlers
\* leave it; at is its approval time
LoadedDonor(k, pre, status, at) ==
    LET screened == status # "Waiting"
        rejected == status = "Rejected"
        approved == screened /\ ~rejected /\ status # "Screening"
        bedded == approved /\ status # "Donation-Queue"
        resting == bedded /\ status # "Donation-In-Progress"
        rested == status = "Recovered"
        done == status = "Completed & Left"
    IN [id |-> k,
        DonorID |-> String(k),
        FullName |-> "Ann",
        PreRegistered |-> pre,
        Status |-> status,
        ScreeningStatus |-> IF ~screened THEN "Not-Started"
                            ELSE IF status = "Screening" THEN "In-Progress"
                            ELSE IF rejected THEN "Rejected" ELSE "Eligible",
        PhotoPrinted |-> done,
        RiceBagGiven |-> done,
        PhotoGiven |-> done,
        RegisteredAt |-> 1,
        ScreeningStartAt |-> IF screened THEN 1 ELSE Unset,
        ApprovedAt |-> IF approved THEN at ELSE Unset,
        RejectedAt |-> IF rejected THEN 1 ELSE Unset,
        RejectionReason |-> "",
        DonationStartAt |-> IF bedded THEN at ELSE Unset,
        RecoveryStartAt |-> IF resting THEN at ELSE Unset,
        RecoveryEndAt |-> IF rested THEN at ELSE Unset,
        CompletedAt |-> IF done THEN at ELSE Unset]

\* the layouts: sequences of <<PreRegistered, Status, ApprovedAt>>
\* approval times of the queue: p = 1 falls along the store, p = 2 rises, p = 3 ties
Pattern(p, j) ==
    IF p = 1 THEN LoadedClock - 1 - ((j - 1) % (LoadedClock - 1))
    ELSE IF p = 2 THEN 1 + ((j - 1) % (LoadedClock - 1))
    ELSE LoadedClock - 2

Past == [j \in 1..4 |->
            <<j % 2 = 0, <<"Recovery", "Recovered", "Rejected", "Completed & Left">>[j], 1>>]
Beds(b) == [j \in 1..b |-> <<j % 2 = 1, "Donation-In-Progress", 1>>]
\* q = <<walk-ins, pre-registered, pattern>>: the walk-ins come first in the store
Queue(q) == [j \in 1..(q[1] + q[2]) |-> <<j > q[1], "Donation-Queue", Pattern(q[3], j)>>]
Arrivals == <<<<TRUE, "Screening", 1>>, <<FALSE, "Waiting", 1>>>>

Queues ==
    {<<2, 4, 1>>, <<2, 4, 2>>, <<2, 4, 3>>, <<3, 3, 1>>, <<1, 5, 2>>, <<1, 4, 3>>, <<1, 1, 1>>}

Snapshot(layout) ==
    [donors |-> [k \in 1..Len(layout) |->
                    LoadedDonor(k, layout[k][1], layout[k][2], layout[k][3])],
     meta |-> [nextDonorNo |-> Len(layout) + 1, lastBatch |-> 0, batches |-> <<>>]]

Layouts ==
    {<<>>}
    \cup {Beds(b) \o Queue(q) \o Arrivals : b \in 0..MAX_BEDS, q \in Queues}
    \cup {Past \o Queue(q) \o Arrivals : q \in Queues}

\* the process has started on the store of the layout, with a budget of events
Started(layout, budget) ==
    /\ db = Snapshot(layout)
    /\ idSeq = Len(layout)
    /\ disk = Snapshot(layout)
    /\ left = budget
    /\ clock = LoadedClock
    /\ req = [op |-> "", id |-> 0]
    /\ _writeTimer = FALSE
    /\ _broadcastTimer = FALSE
    /\ writeTimers = 0
    /\ broadcastTimers = 0
    /\ alive = TRUE
    /\ issued = {}
    /\ writeDue = Unset
    /\ broadcastDue = Unset
    /\ wire = <<>>

Init ==
    \E layout \in Layouts :
        Started(layout, IF layout = <<>> THEN MaxFreshSteps ELSE MaxSteps)

Next ==
    \/ \E n \in FullNames, p \in BOOLEAN : Register(n, p)
    \/ \E id \in ReqIds : SendToScreening(id)
    \/ \E id \in ReqIds : Approve(id)
    \/ \E id \in ReqIds, r \in Reasons : Reject(id, r)
    \/ \E id \in ReqIds : MoveToBed(id)
    \/ FillBedsFifo
    \/ FillBeds4p2
    \/ \E id \in ReqIds : ToRecovery(id)
    \/ \E id \in ReqIds : Recovered(id)
    \/ \E id \in ReqIds : Complete(id)
    \/ Reset
    \/ \E ok \in BOOLEAN : WriteTimerFires(ok)
    \/ \E ok \in BOOLEAN : BroadcastTimerFires(ok)
    \/ Tick

Spec == Init /\ [][Next]_vars

(***************************************************************************)
(* The server with its timers on time. In Spec a timer callback may run at *)
(* any moment after its timer was set, and a run ends with its budget. In  *)
(* TimedSpec a callback runs when the clock has reached the time its timer *)
(* was set for, time does not pass a pending timer, the flushes succeed,   *)
(* and the budget bounds the requests and the ticks only: the event loop   *)
(* runs every timer that is due (weak fairness), also after the last       *)
(* request.                                                                *)
(***************************************************************************)
\* the times the pending timers were set for
PendingDues == {t \in {writeDue, broadcastDue} : t # Unset}

\* no request arrives until the next timer is due
Elapse ==
    /\ alive
    /\ PendingDues # {}
    /\ \A t \in PendingDues : clock < t
    /\ clock' \in PendingDues
    /\ \A t \in PendingDues : clock' <= t
    /\ UNCHANGED <<db, idSeq, req, _writeTimer, _broadcastTimer, disk, left, writeTimers,
                   broadcastTimers, alive, issued, writeDue, broadcastDue, wire>>

\* a millisecond passes and no pending timer is overdue
TimedTick == (\A t \in PendingDues : clock < t) /\ Tick

\* the write timer is due: its callback runs and the write succeeds
WriteTimerDue ==
    /\ alive
    /\ writeDue # Unset
    /\ clock >= writeDue
    /\ WriteTimerRuns(TRUE)
    /\ UNCHANGED left

\* the broadcast timer is due: its callback runs and the emit succeeds
BroadcastTimerDue ==
    /\ alive
    /\ broadcastDue # Unset
    /\ clock >= broadcastDue
    /\ BroadcastTimerRuns(TRUE)
    /\ UNCHANGED left

\* requests of a timed run
MaxTimedSteps == 2

\* the stores a timed run starts from: the fresh store, a store with a
\* donor in recovery, a donor in the chairs, a donor in screening and a
\* donor waiting, and a store with the quota of the 4+2 fill in the chairs
Floor == <<<<FALSE, "Recovery", 1>>, <<TRUE, "Donation-Queue", 1>>>> \o Arrivals
TimedLayouts == {<<>>, Floor, Queue(<<WALK_STRICT, PRE_STRICT, 2>>)}

TimedInit == \E layout \in TimedLayouts : Started(layout, MaxTimedSteps)

TimedNext ==
    \/ \E n \in FullNames, p \in BOOLEAN : Register(n, p)
    \/ \E id \in ReqIds : SendToScreening(id)
    \/ \E id \in ReqIds : Approve(id)
    \/ \E id \in ReqIds, r \in Reasons : Reject(id, r)
    \/ \E id \in ReqIds : MoveToBed(id)
    \/ FillBedsFifo
    \/ FillBeds4p2
    \/ \E id \in ReqIds : ToRecovery(id)
    \/ \E id \in ReqIds : Recovered(id)
    \/ \E id \in ReqIds : Complete(id)
    \/ Reset
    \/ WriteTimerDue
    \/ BroadcastTimerDue
    \/ TimedTick
    \/ Elapse

TimedSpec ==
    /\ TimedInit
    /\ [][TimedNext]_vars
    /\ WF_vars(Elapse)
    /\ WF_vars(WriteTimerDue)
    /\ WF_vars(BroadcastTimerDue)

(***************************************************************************)
(* Vocabulary of the properties.                                           *)
(***************************************************************************)
Waiting == "Waiting"
Screening == "Screening"
Queued == "Donation-Queue"
Rejected == "Rejected"
InBed == "Donation-In-Progress"
Recovery == "Recovery"
RecoveredSt == "Recovered"
Completed == "Completed & Left"

\* the positions of the store data whose donor has status st
Holding(data, st) == {i \in 1..Len(data.donors) : data.donors[i].Status = st}
Count(data, st) == Cardinality(Holding(data, st))

\* the class of a response in the error taxonomy
Kind(r) ==
    IF r.code = 200 THEN "Ok"
    ELSE IF r.code = 400 THEN "ValidationError"
    ELSE IF r.code = 404 THEN "NotFound"
    ELSE IF r.error \in {"Chairs full (6). Move some to beds first.", "No bed available"}
    THEN "CapacityExceeded"
    ELSE IF r.error = "Need at least 4 pre-reg and 2 walk-in in chairs" THEN "QuotaUnmet"
    ELSE "IllegalTransition"

\* the store data differs from db at most at the positions in S
SameExceptAt(data, S) ==
    /\ data.meta = db.meta
    /\ Len(data.donors) = Len(db.donors)
    /\ \A i \in 1..Len(db.donors) : i \notin S => data.donors[i] = db.donors[i]

\* donor position i was stamped with time field value t during this run
Fresh(t) == t # Unset /\ t >= LoadedClock

(***************************************************************************)
(* C1: in every reachable state at most MAX_BEDS donors hold the status    *)
(* Donation-In-Progress.                                                   *)
(***************************************************************************)
C1_BedsNeverExceeded == Count(db, InBed) <= MAX_BEDS

\* all beds are taken, the last of them by a request of this run, a donor is
\* still in a chair and is refused a bed
C1_Witness ==
    /\ Count(db, InBed) = MAX_BEDS
    /\ req.op \in {"move-to-bed", "fill-beds-fifo", "fill-beds-4p2"}
    /\ \E i \in Holding(db, InBed) : Fresh(db.donors[i].DonationStartAt)
    /\ \E i \in Holding(db, Queued) :
          moveToBed(db.donors[i].id).res.error = "No bed available"

(***************************************************************************)
(* C2: in every reachable state at most MAX_QUEUE donors hold the status   *)
(* Donation-Queue; a step that raises their number is an approve, taken    *)
(* while the number is below MAX_QUEUE.                                    *)
(***************************************************************************)
C2_QueueNeverExceeded ==
    /\ [](Count(db, Queued) <= MAX_QUEUE)
    /\ [][Count(db', Queued) > Count(db, Queued)
            => /\ \E id \in ReqIds : Approve(id)
               /\ Count(db, Queued) < MAX_QUEUE
               /\ Count(db', Queued) = Count(db, Queued) + 1]_vars

\* an approve of this run has taken the last chair
C2_Witness ==
    /\ Count(db, Queued) = MAX_QUEUE
    /\ req.op = "approve"
    /\ \E i \in Holding(db, Queued) :
          db.donors[i].id = req.id /\ Fresh(db.donors[i].ApprovedAt)

(***************************************************************************)
(* C3: whenever a step changes the status of a donor, the old and the new  *)
(* status are an edge of the transition graph; so Rejected and Completed   *)
(* are never left and no status is entered again.                          *)
(***************************************************************************)
Edges ==
    {<<Waiting, Screening>>, <<Screening, Queued>>, <<Screening, Rejected>>,
     <<Queued, InBed>>, <<InBed, Recovery>>, <<Recovery, RecoveredSt>>,
     <<Recovery, Completed>>, <<RecoveredSt, Completed>>}

C3_OnlyGraphEdges ==
    [][\A i \in 1..Len(db.donors) :
          LET id == db.donors[i].id
              \* the donor's position after the step
              j == IF i <= Len(db'.donors) /\ db'.donors[i].id = id
                   THEN i ELSE find(db'.donors, id)
          IN (j # 0 /\ db.donors[i].Status # db'.donors[j].Status)
                => <<db.donors[i].Status, db'.donors[j].Status>> \in Edges]_vars

\* a donor registered in this run has gone all the way to Completed & Left
C3_Witness ==
    \E i \in Holding(db, Completed) :
        /\ Fresh(db.donors[i].RegisteredAt)
        /\ Fresh(db.donors[i].CompletedAt)

(***************************************************************************)
(* Vocabulary of the bulk fills.                                           *)
(***************************************************************************)
Min(a, b) == IF a < b THEN a ELSE b

\* beds free in the current store
FreeBeds == MAX_BEDS - Count(db, InBed)

\* the approval time by which the fills order the chairs: a donor without
\* ApprovedAt counts as approved at time 0
ApprovedKey(d) == IF d.ApprovedAt = Unset THEN 0 ELSE d.ApprovedAt

\* the queued donors of the current store, all or of one category
QueuedOf(pre) == {i \in Holding(db, Queued) : db.donors[i].PreRegistered = pre}

\* the donors of the set Q that the store data has in a bed
MovedOf(data, Q) == {i \in Q : data.donors[i].Status = InBed}

\* the donors of M got the mutation of move-to-bed and nothing else changed
MovedExactly(data, M) ==
    /\ SameExceptAt(data, M)
    /\ \A m \in M : data.donors[m] =
          [db.donors[m] EXCEPT !.Status = InBed, !.DonationStartAt = clock]

\* no donor of Q left in its chair was approved strictly before a moved one
EarliestOf(data, Q) ==
    \A m \in MovedOf(data, Q), l \in Q \ MovedOf(data, Q) :
        ~(ApprovedKey(db.donors[l]) < ApprovedKey(db.donors[m]))

(***************************************************************************)
(* C4: in every reachable state, fill-beds-fifo moves exactly min(b, q)    *)
(* donors to a bed, b the free beds and q the queued donors, answers that  *)
(* number, and no donor it leaves in a chair was approved strictly earlier *)
(* than a donor it moved.                                                  *)
(***************************************************************************)
C4_FifoFill ==
    LET out == fillBedsFifo
        Q == Holding(db, Queued)
        M == MovedOf(out.db, Q)
        n == Min(FreeBeds, Cardinality(Q))
    IN /\ Kind(out.res) = "Ok"
       /\ out.res.moved = n
       /\ Cardinality(M) = n
       /\ MovedExactly(out.db, M)
       /\ EarliestOf(out.db, Q)

\* a fifo fill of this run took the last beds and left a donor in a chair;
\* a donor it moved stands behind that donor in the store
C4_Witness ==
    /\ req.op = "fill-beds-fifo"
    /\ Count(db, InBed) = MAX_BEDS
    /\ \E l \in Holding(db, Queued), m \in Holding(db, InBed) :
          /\ Fresh(db.donors[m].DonationStartAt)
          /\ l < m
          /\ db.donors[m].ApprovedAt < db.donors[l].ApprovedAt

(***************************************************************************)
(* C5 as claimed: whenever fewer than PRE_STRICT pre-registered or fewer   *)
(* than WALK_STRICT walk-in donors are queued, fill-beds-4p2 answers       *)
(* QuotaUnmet and changes no donor, whatever the number of free beds.      *)
(***************************************************************************)
QuotaMet ==
    /\ Cardinality(QueuedOf(TRUE)) >= PRE_STRICT
    /\ Cardinality(QueuedOf(FALSE)) >= WALK_STRICT

C5_Original ==
    ~QuotaMet => (Kind(fillBedsQuota.res) = "QuotaUnmet" /\ fillBedsQuota.db = db)

(***************************************************************************)
(* C5 as amended: whenever the quota is unmet, fill-beds-4p2 changes no    *)
(* donor and does not save; it answers QuotaUnmet when a bed is free, and  *)
(* { moved: 0, reason: 'no_bed' } with status 200 when no bed is free.     *)
(***************************************************************************)
C5_QuotaUnmet ==
    [](~QuotaMet =>
        /\ fillBedsQuota.db = db
        /\ ~fillBedsQuota.saved
        /\ IF FreeBeds > 0
           THEN Kind(fillBedsQuota.res) = "QuotaUnmet"
           ELSE fillBedsQuota.res = MovedRes(0, "no_bed"))

\* a bed has just been freed, all chairs are taken, and the quota fill is
\* refused for the quota, not for the beds
C5_Witness ==
    /\ req.op = "to-recovery"
    /\ FreeBeds = 1
    /\ Count(db, Queued) = MAX_QUEUE
    /\ ~QuotaMet
    /\ Kind(fillBedsQuota.res) = "QuotaUnmet"

(***************************************************************************)
(* C6: whenever the quota is met and b beds are free, fill-beds-4p2 moves  *)
(* exactly the min(b, PRE_STRICT) earliest approved pre-registered queued  *)
(* donors and the min(max(b - PRE_STRICT, 0), WALK_STRICT) earliest        *)
(* approved walk-in queued donors, and answers their total; a walk-in is   *)
(* moved only when PRE_STRICT pre-registered donors are.                   *)
(***************************************************************************)
C6_QuotaFill ==
    QuotaMet =>
        LET out == fillBedsQuota
            P == MovedOf(out.db, QueuedOf(TRUE))
            W == MovedOf(out.db, QueuedOf(FALSE))
        IN /\ Kind(out.res) = "Ok"
           /\ Cardinality(P) = Min(FreeBeds, PRE_STRICT)
           /\ Cardinality(W) = Min(Max(FreeBeds - PRE_STRICT, 0), WALK_STRICT)
           /\ out.res.moved = Cardinality(P) + Cardinality(W)
           /\ MovedExactly(out.db, P \cup W)
           /\ EarliestOf(out.db, QueuedOf(TRUE))
           /\ EarliestOf(out.db, QueuedOf(FALSE))
           /\ W # {} => Cardinality(P) = PRE_STRICT

\* a quota fill of this run found one bed less than the quota: it moved the
\* pre-registered donors and one walk-in, and the later walk-in stays
C6_Witness ==
    /\ req.op = "fill-beds-4p2"
    /\ Count(db, InBed) = MAX_BEDS
    /\ Count(db, Queued) = 1
    /\ \E l \in Holding(db, Queued), m \in Holding(db, InBed) :
          /\ ~db.donors[l].PreRegistered
          /\ ~db.donors[m].PreRegistered
          /\ Fresh(db.donors[m].DonationStartAt)
          /\ db.donors[m].ApprovedAt < db.donors[l].ApprovedAt

(***************************************************************************)
(* Vocabulary of the single-donor operations.                              *)
(***************************************************************************)
\* the request is refused with the given kind of error and changes nothing
Refused(out, kind) == Kind(out.res) = kind /\ out.db = db /\ ~out.saved

\* the ids that no donor of the store has
UnknownIds == {id \in 0..(idSeq + 1) : find(db.donors, id) = 0}

(***************************************************************************)
(* C7 as claimed: in every reachable state, each single-donor operation    *)
(* called with the id of an existing donor whose status is not the         *)
(* operation's required predecessor is refused with IllegalTransition and  *)
(* changes nothing, also when MAX_QUEUE donors are queued.                 *)
(***************************************************************************)
C7_Original ==
    \A i \in 1..Len(db.donors) :
        LET d == db.donors[i]
        IN /\ d.Status # Waiting => Refused(sendToScreening(d.id), "IllegalTransition")
           /\ d.Status # Screening =>
                 /\ Refused(approve(d.id), "IllegalTransition")
                 /\ \A r \in Reasons : Refused(reject(d.id, r), "IllegalTransition")
           /\ d.Status # Queued => Refused(moveToBed(d.id), "IllegalTransition")
           /\ d.Status # InBed => Refused(toRecovery(d.id), "IllegalTransition")
           /\ d.Status # Recovery => Refused(recovered(d.id), "IllegalTransition")
           /\ d.Status \notin {Recovery, RecoveredSt} =>
                 Refused(complete(d.id), "IllegalTransition")

(***************************************************************************)
(* C8 as claimed: in every reachable state, each single-donor operation    *)
(* called with an id that no donor of the store has is refused with        *)
(* NotFound, also approve while MAX_QUEUE donors are queued.               *)
(***************************************************************************)
C8_Original ==
    \A id \in UnknownIds :
        /\ Refused(sendToScreening(id), "NotFound")
        /\ Refused(approve(id), "NotFound")
        /\ \A r \in Reasons : Refused(reject(id, r), "NotFound")
        /\ Refused(moveToBed(id), "NotFound")
        /\ Refused(toRecovery(id), "NotFound")
        /\ Refused(recovered(id), "NotFound")
        /\ Refused(complete(id), "NotFound")

(***************************************************************************)
(* C9: in every reachable state with MAX_QUEUE donors queued, approve on a *)
(* donor in Screening is refused with CapacityExceeded and the donor stays *)
(* in Screening with ScreeningStatus In-Progress and ApprovedAt unset; and *)
(* after every step that moves a queued donor to a bed from such a state,  *)
(* approve on each donor in Screening succeeds and queues that donor.      *)
(***************************************************************************)
C9_ApproveAtCapacity ==
    /\ [](Count(db, Queued) >= MAX_QUEUE =>
            \A i \in Holding(db, Screening) :
                LET out == approve(db.donors[i].id)
                IN /\ Refused(out, "CapacityExceeded")
                   /\ out.db.donors[i].Status = Screening
                   /\ out.db.donors[i].ScreeningStatus = "In-Progress"
                   /\ out.db.donors[i].ApprovedAt = Unset)
    /\ [][(/\ Count(db, Queued) >= MAX_QUEUE
           /\ \E m \in Holding(db, Queued) :
                 /\ m <= Len(db'.donors)
                 /\ db'.donors[m].id = db.donors[m].id
                 /\ db'.donors[m].Status = InBed)
          => \A i \in Holding(db, Screening) :
                /\ approve(db.donors[i].id)'.saved
                /\ Kind(approve(db.donors[i].id)'.res) = "Ok"
                /\ approve(db.donors[i].id)'.db.donors[i] =
                      [db.donors[i] EXCEPT !.ScreeningStatus = "Eligible",
                                           !.Status = Queued,
                                           !.ApprovedAt = clock']]_vars

\* the chairs were full, a queued donor was moved to a bed in this run, and
\* the approve that followed took the freed chair
C9_Witness ==
    /\ req.op = "approve"
    /\ Count(db, Queued) = MAX_QUEUE
    /\ \E i \in Holding(db, Queued) :
          /\ db.donors[i].id = req.id
          /\ Fresh(db.donors[i].ApprovedAt)
          /\ \E m \in Holding(db, InBed) :
                /\ Fresh(db.donors[m].DonationStartAt)
                /\ ~Fresh(db.donors[m].ApprovedAt)
                /\ db.donors[m].DonationStartAt <= db.donors[i].ApprovedAt

(***************************************************************************)
(* C10: in every reachable state and for every queued donor, move-to-bed   *)
(* is refused with CapacityExceeded while MAX_BEDS donors are in a bed,    *)
(* the donor staying queued with DonationStartAt unset; otherwise it       *)
(* succeeds and moves that donor and no other to a bed, whatever the       *)
(* donor's place in the order of approval.                                 *)
(***************************************************************************)
C10_MoveToBed ==
    [](\A i \in Holding(db, Queued) :
        LET out == moveToBed(db.donors[i].id)
        IN IF Count(db, InBed) >= MAX_BEDS
           THEN /\ Refused(out, "CapacityExceeded")
                /\ out.db.donors[i].Status = Queued
                /\ out.db.donors[i].DonationStartAt = Unset
           ELSE /\ out.saved
                /\ Kind(out.res) = "Ok"
                /\ MovedExactly(out.db, {i}))

\* a move-to-bed of this run took the last bed for a donor approved after a
\* donor still in its chair, and that donor is now refused a bed
C10_Witness ==
    /\ req.op = "move-to-bed"
    /\ Count(db, InBed) = MAX_BEDS
    /\ \E m \in Holding(db, InBed), l \in Holding(db, Queued) :
          /\ db.donors[m].id = req.id
          /\ Fresh(db.donors[m].DonationStartAt)
          /\ ApprovedKey(db.donors[l]) < ApprovedKey(db.donors[m])
          /\ Kind(moveToBed(db.donors[l].id).res) = "CapacityExceeded"

(***************************************************************************)
(* Vocabulary of the flushes.                                              *)
(***************************************************************************)
\* the step is a request that reached save(): an event that is neither a
\* timer callback nor the passing of time
SaveStep ==
    /\ left' # left
    /\ clock' = clock
    /\ writeTimers' >= writeTimers
    /\ broadcastTimers' >= broadcastTimers

\* the step is the callback of a write timer, of a broadcast timer
WriteStep == writeTimers' < writeTimers
BroadcastStep == broadcastTimers' < broadcastTimers

(***************************************************************************)
(* C11: a debounce window is open from the save() that sets the write      *)
(* timer until that timer fires. In every step: the file changes only when *)
(* the write timer fires, and then to the store as it is, which is the     *)
(* store after the last mutation; a save() inside an open window writes    *)
(* nothing and sets no further timer; the callback closes the window; and  *)
(* every mutation of the store falls into a window.                        *)
(***************************************************************************)
C11_OneWritePerWindow ==
    /\ [][disk' # disk => (WriteStep /\ _writeTimer /\ db' = db /\ disk' = db)]_vars
    /\ [][(SaveStep /\ _writeTimer) =>
             (disk' = disk /\ _writeTimer' /\ writeTimers' = writeTimers)]_vars
    /\ [][WriteStep => (~_writeTimer' /\ writeTimers' = 0)]_vars
    /\ [][db' # db => (SaveStep /\ _writeTimer')]_vars

\* from the fresh store: two registrations, then the one write, which holds
\* both donors
C11_Witness ==
    /\ left = MaxFreshSteps - 3
    /\ Len(db.donors) = 2
    /\ idSeq = 2
    /\ disk = db
    /\ ~_writeTimer
    /\ writeTimers = 0

(***************************************************************************)
(* C12: in every reachable state the event loop holds one write timer when *)
(* the write handle is set and none when it is null, and likewise for the  *)
(* broadcast: each scheduler is Idle or Pending, never doubly scheduled.   *)
(***************************************************************************)
C12_AtMostOneTimer ==
    /\ writeTimers = (IF _writeTimer THEN 1 ELSE 0)
    /\ broadcastTimers = (IF _broadcastTimer THEN 1 ELSE 0)

\* from the fresh store: a second registration arrived while both timers of
\* the first were pending
C12_Witness ==
    /\ left = MaxFreshSteps - 2
    /\ Len(db.donors) = 2
    /\ _writeTimer /\ writeTimers = 1
    /\ _broadcastTimer /\ broadcastTimers = 1

(***************************************************************************)
(* C13: in every step in which a handler mutates the store and answers,    *)
(* nothing is written: the file is as before, and the write and the        *)
(* broadcast that carry the mutation are pending timers, which run in      *)
(* later steps.                                                            *)
(***************************************************************************)
C13_ResponseBeforeFlush ==
    [][SaveStep =>
          /\ disk' = disk
          /\ _writeTimer' /\ writeTimers' = 1
          /\ _broadcastTimer' /\ broadcastTimers' = 1]_vars

\* a loaded store after one request: answered, not yet written, both timers
\* pending
C13_Witness ==
    /\ left = MaxSteps - 1
    /\ req.op = "approve"
    /\ \E i \in Holding(db, Queued) : db.donors[i].id = req.id
    /\ db # disk
    /\ _writeTimer
    /\ _broadcastTimer

(***************************************************************************)
(* C14: after every step of a timer callback, whether its write or emit    *)
(* succeeded or failed, the process is running and the callback's          *)
(* scheduler is Idle with no timer left; and every request that reaches    *)
(* save() while a scheduler is Idle sets that scheduler's timer.           *)
(***************************************************************************)
C14_FaultsAreContained ==
    /\ [](alive)
    /\ [][WriteStep => (alive' /\ ~_writeTimer' /\ writeTimers' = 0)]_vars
    /\ [][BroadcastStep => (alive' /\ ~_broadcastTimer' /\ broadcastTimers' = 0)]_vars
    /\ [][(SaveStep /\ ~_writeTimer) => (_writeTimer' /\ writeTimers' = 1)]_vars
    /\ [][(SaveStep /\ ~_broadcastTimer) =>
             (_broadcastTimer' /\ broadcastTimers' = 1)]_vars

\* the write of a mutation has failed: the write scheduler is Idle while the
\* store differs from the file, and the process is running
C14_Witness ==
    /\ alive
    /\ req.op # ""
    /\ ~_writeTimer
    /\ writeTimers = 0
    /\ db # disk

(***************************************************************************)
(* C15 as claimed: in every step that registers a donor, the DonorID the   *)
(* donor gets is one that no earlier register call of the run returned,    *)
(* whatever operations (reset included) came in between.                   *)
(***************************************************************************)
C15_Original ==
    [][Len(db'.donors) = Len(db.donors) + 1 =>
          db'.donors[Len(db'.donors)].DonorID \notin issued]_vars

(***************************************************************************)
(* C15 as amended: in every reachable state the donors of the store have   *)
(* pairwise distinct DonorIDs; so the DonorIDs given out between two       *)
(* resets are distinct, and reset starts the numbers at 1 again.           *)
(***************************************************************************)
C15_UniqueInStore ==
    \A i, j \in 1..Len(db.donors) :
        i # j => db.donors[i].DonorID # db.donors[j].DonorID

\* donors were created, the store was reset, and two donors registered
\* since hold the numbers 1 and 2 again
C15_Witness ==
    /\ req.op = "register"
    /\ Len(db.donors) = 2
    /\ idSeq > 2
    /\ db.donors[1].DonorID = "1"
    /\ db.donors[2].DonorID = "2"
    /\ {"1", "2"} \subseteq issued

(***************************************************************************)
(* C16: whenever reset is the last request served, the store is the fresh  *)
(* store (no donor, so no bed and no chair taken) and a register with a    *)
(* name succeeds with DonorID 1 and status Waiting; and a write timer that *)
(* fires after the reset leaves in the file the emptied store, or, when    *)
(* the write fails, what the file held.                                    *)
(***************************************************************************)
C16_ResetEmpties ==
    /\ [](req.op = "reset" =>
            /\ db = freshData
            /\ Count(db, InBed) = 0 /\ Count(db, Queued) = 0
            /\ \A p \in BOOLEAN :
                  LET out == register("Ann", p)
                  IN /\ out.saved
                     /\ Kind(out.res) = "Ok"
                     /\ out.res.donor[1].DonorID = "1"
                     /\ out.res.donor[1].Status = Waiting
                     /\ out.db.donors = out.res.donor)
    /\ [][(req.op = "reset" /\ WriteStep) => disk' \in {freshData, disk}]_vars
    /\ [][(req'.op = "reset" /\ SaveStep) => db' = freshData]_vars

\* from the fresh store: a donor was registered, the store was reset while
\* the write of the registration was pending, and the write timer has fired
C16_Witness ==
    /\ left = MaxFreshSteps - 3
    /\ req.op = "reset"
    /\ idSeq = 1
    /\ ~_writeTimer
    /\ _broadcastTimer
    /\ disk = freshData

(***************************************************************************)
(* Vocabulary of the timestamps.                                           *)
(***************************************************************************)
\* the timestamp fields a transition sets, and the transition of each
Stamps ==
    {"ScreeningStartAt", "ApprovedAt", "RejectedAt", "DonationStartAt",
     "RecoveryStartAt", "RecoveryEndAt", "CompletedAt"}

StampOf(edge) ==
    IF edge = <<Waiting, Screening>> THEN "ScreeningStartAt"
    ELSE IF edge = <<Screening, Queued>> THEN "ApprovedAt"
    ELSE IF edge = <<Screening, Rejected>> THEN "RejectedAt"
    ELSE IF edge = <<Queued, InBed>> THEN "DonationStartAt"
    ELSE IF edge = <<InBed, Recovery>> THEN "RecoveryStartAt"
    ELSE IF edge = <<Recovery, RecoveredSt>> THEN "RecoveryEndAt"
    ELSE IF edge \in {<<Recovery, Completed>>, <<RecoveredSt, Completed>>} THEN "CompletedAt"
    ELSE "none"

\* the statuses a donor can hold once it has been approved, been in a bed,
\* been in recovery
Approved == {Queued, InBed, Recovery, RecoveredSt, Completed}
Bedded == {InBed, Recovery, RecoveredSt, Completed}
Rested == {Recovery, RecoveredSt, Completed}

\* the timestamps of donor d are those of a donor that came to d.Status
StampsFitStatus(d) ==
    /\ d.RegisteredAt # Unset
    /\ d.ScreeningStartAt # Unset <=> d.Status # Waiting
    /\ d.ApprovedAt # Unset <=> d.Status \in Approved
    /\ d.RejectedAt # Unset <=> d.Status = Rejected
    /\ d.DonationStartAt # Unset <=> d.Status \in Bedded
    /\ d.RecoveryStartAt # Unset <=> d.Status \in Rested
    /\ d.Status = RecoveredSt => d.RecoveryEndAt # Unset
    /\ d.Status \notin {RecoveredSt, Completed} => d.RecoveryEndAt = Unset
    /\ d.CompletedAt # Unset <=> d.Status = Completed

\* donor a has become donor b in one step: no timestamp that was set has
\* changed, and a timestamp was set exactly for the transition taken
StampsKept(a, b) ==
    /\ b.RegisteredAt = a.RegisteredAt
    /\ \A f \in Stamps :
          /\ a[f] # Unset => b[f] = a[f]
          /\ (a[f] = Unset /\ b[f] # Unset) =>
                (StampOf(<<a.Status, b.Status>>) = f /\ b[f] = clock)
    /\ a.Status # b.Status => b[StampOf(<<a.Status, b.Status>>)] # Unset

(***************************************************************************)
(* C17: in every reachable state each donor's timestamps are set exactly   *)
(* for the transitions its status shows it has taken (RecoveryEndAt: set   *)
(* in Recovered, unset before Recovered); and in every step, for every     *)
(* donor that stays in the store, a timestamp that was set keeps its       *)
(* value, and a timestamp becomes set only in the step of its transition,  *)
(* to the time of that step.                                               *)
(***************************************************************************)
C17_TimestampsFollowTransitions ==
    /\ [](\A i \in 1..Len(db.donors) : StampsFitStatus(db.donors[i]))
    /\ [][\A i \in 1..Len(db.donors) :
             (i <= Len(db'.donors) /\ db'.donors[i].id = db.donors[i].id)
                => StampsKept(db.donors[i], db'.donors[i])]_vars

\* a donor loaded in Recovery was declared recovered and then completed in
\* this run: two timestamps are new, the earlier ones are as loaded
C17_Witness ==
    \E i \in Holding(db, Completed) :
        /\ Fresh(db.donors[i].RecoveryEndAt)
        /\ Fresh(db.donors[i].CompletedAt)
        /\ db.donors[i].RecoveryStartAt # Unset
        /\ ~Fresh(db.donors[i].RecoveryStartAt)
        /\ ~Fresh(db.donors[i].ApprovedAt)

(***************************************************************************)
(* C18: in every reachable state, for every donor, RiceBagGiven,           *)
(* PhotoGiven and PhotoPrinted are all true when the donor's status is     *)
(* Completed & Left and all false otherwise; so PhotoPrinted is false for  *)
(* every rejected donor.                                                   *)
(***************************************************************************)
C18_FlagsIffCompleted ==
    \A i \in 1..Len(db.donors) :
        LET d == db.donors[i]
        IN /\ d.RiceBagGiven = (d.Status = Completed)
           /\ d.PhotoGiven = (d.Status = Completed)
           /\ d.PhotoPrinted = (d.Status = Completed)

\* one donor was completed and another rejected in this run
C18_Witness ==
    /\ \E i \in Holding(db, Completed) :
          /\ Fresh(db.donors[i].CompletedAt)
          /\ db.donors[i].PhotoGiven
    /\ \E j \in Holding(db, Rejected) :
          /\ Fresh(db.donors[j].RejectedAt)
          /\ ~db.donors[j].PhotoPrinted

(***************************************************************************)
(* C19 as claimed: in every reachable state, each single-donor transition  *)
(* that succeeds on a donor answers with that donor's record as the store  *)
(* now holds it (so with its new status and its new timestamp).            *)
(***************************************************************************)
Answers(out, i) == out.saved => (Kind(out.res) = "Ok" /\ out.res.donor = <<out.db.donors[i]>>)

C19_Original ==
    \A i \in 1..Len(db.donors) :
        LET id == db.donors[i].id
        IN /\ Answers(sendToScreening(id), i)
           /\ Answers(approve(id), i)
           /\ \A r \in Reasons : Answers(reject(id, r), i)
           /\ Answers(moveToBed(id), i)
           /\ Answers(toRecovery(id), i)
           /\ Answers(recovered(id), i)
           /\ Answers(complete(id), i)

(***************************************************************************)
(* C20: in every reachable state every donor's ScreeningStatus is the one  *)
(* of its status: Not-Started in Waiting, In-Progress in Screening,        *)
(* Rejected in Rejected, Eligible in every status from the chairs on.      *)
(***************************************************************************)
ScreeningOf(status) ==
    IF status = Waiting THEN "Not-Started"
    ELSE IF status = Screening THEN "In-Progress"
    ELSE IF status = Rejected THEN "Rejected"
    ELSE "Eligible"

C20_ScreeningFollowsStatus ==
    \A i \in 1..Len(db.donors) :
        db.donors[i].ScreeningStatus = ScreeningOf(db.donors[i].Status)

\* in this run one donor was sent to screening and another was approved
C20_Witness ==
    /\ \E i \in Holding(db, Screening) :
          /\ Fresh(db.donors[i].ScreeningStartAt)
          /\ db.donors[i].ScreeningStatus = "In-Progress"
    /\ \E j \in Holding(db, Queued) :
          /\ Fresh(db.donors[j].ApprovedAt)
          /\ db.donors[j].ScreeningStatus = "Eligible"

(***************************************************************************)
(* C21: in every step in which a single-donor transition reaches save(),   *)
(* the store changes at the position of the donor named by the request's   *)
(* id and nowhere else: every other donor, the number of donors and the    *)
(* metadata are as before, and the donor keeps its id, DonorID, name and   *)
(* registration. In a to-recovery step the chairs hold the same donors as  *)
(* before and the beds hold the same donors less the one that left.        *)
(***************************************************************************)
SingleDonorRoutes ==
    {"send-to-screening", "approve", "reject", "move-to-bed", "to-recovery",
     "recovered", "complete"}

C21_OnlyTheNamedDonor ==
    [][(SaveStep /\ req'.op \in SingleDonorRoutes) =>
          LET i == find(db.donors, req'.id)
          IN /\ i > 0
             /\ SameExceptAt(db', {i})
             /\ db'.donors[i].Status # db.donors[i].Status
             /\ db'.donors[i].id = db.donors[i].id
             /\ db'.donors[i].DonorID = db.donors[i].DonorID
             /\ db'.donors[i].FullName = db.donors[i].FullName
             /\ db'.donors[i].PreRegistered = db.donors[i].PreRegistered
             /\ req'.op = "to-recovery" =>
                   /\ Holding(db', Queued) = Holding(db, Queued)
                   /\ Holding(db', InBed) = Holding(db, InBed) \ {i}
                   /\ i \in Holding(db, InBed)]_vars

\* a donor went from its bed to recovery in this run while donors sit in the
\* chairs: the bed is free and the chairs are as they were
C21_Witness ==
    /\ req.op = "to-recovery"
    /\ \E i \in Holding(db, Recovery) :
          /\ db.donors[i].id = req.id
          /\ Fresh(db.donors[i].RecoveryStartAt)
    /\ Count(db, Queued) >= 2
    /\ Count(db, InBed) = MAX_BEDS - 1
    /\ left = MaxSteps - 1

(***************************************************************************)
(* Vocabulary of the failures.                                             *)
(***************************************************************************)
\* a request that has not reached save() has changed nothing, and a request
\* that has reached save() is answered with success: so a request that is
\* answered with an error has changed nothing and has not reached save()
Contained(out) ==
    IF out.saved THEN Kind(out.res) = "Ok" ELSE out.db = db

\* every request the clients can send in this state that fails is contained
FailuresContained ==
    /\ \A n \in FullNames, p \in BOOLEAN : Contained(register(n, p))
    /\ \A id \in 0..(idSeq + 1) :
          /\ Contained(sendToScreening(id))
          /\ Contained(approve(id))
          /\ \A r \in Reasons : Contained(reject(id, r))
          /\ Contained(moveToBed(id))
          /\ Contained(toRecovery(id))
          /\ Contained(recovered(id))
          /\ Contained(complete(id))
    /\ Contained(fillBedsFifo)
    /\ Contained(fillBedsQuota)
    /\ Contained(reset)

\* only a request that reached save() sets a timer or changes the store
OnlySavesSchedule ==
    (writeTimers' > writeTimers \/ broadcastTimers' > broadcastTimers \/ db' # db)
        => (SaveStep /\ req'.op # "")

(***************************************************************************)
(* C25 as claimed: in every reachable state every request that fails       *)
(* (validation, not found, illegal transition, capacity, quota) leaves the *)
(* store as it is, nextDonorNo included, and does not reach save(); only a *)
(* request that reaches save() sets a timer; and every request that        *)
(* reaches save() has changed the store.                                   *)
(***************************************************************************)
C25_Original ==
    /\ [](FailuresContained)
    /\ [][OnlySavesSchedule]_vars
    /\ [][SaveStep => db' # db]_vars

(***************************************************************************)
(* C25 as amended: in every reachable state every request that fails       *)
(* leaves the store as it is, nextDonorNo included, and does not reach     *)
(* save(); only a request that reaches save() sets a timer; and a request  *)
(* that reaches save() has changed the store unless it is a fill-beds-fifo *)
(* that found a free bed and nobody in the chairs, or a reset of a store   *)
(* that was already empty.                                                 *)
(***************************************************************************)
C25_FailuresChangeNothing ==
    /\ [](FailuresContained)
    /\ [][OnlySavesSchedule]_vars
    /\ [][SaveStep =>
            \/ db' # db
            \/ req'.op = "fill-beds-fifo" /\ Count(db, Queued) = 0 /\ FreeBeds > 0
            \/ req'.op = "reset" /\ db = freshData]_vars

\* a donor was registered while the chairs are full and the timers have run:
\* an approve is refused for capacity, a register without name, a request
\* for an unknown id and a to-recovery of a donor in the chairs are refused,
\* and no timer is pending
C25_Witness ==
    /\ req.op = "register"
    /\ Count(db, Queued) = MAX_QUEUE
    /\ Refused(approve(req.id), "CapacityExceeded")
    /\ Refused(moveToBed(req.id), "IllegalTransition")
    /\ Refused(register("", TRUE), "ValidationError")
    /\ Refused(toRecovery(0), "NotFound")
    /\ \E i \in Holding(db, Queued) :
          Refused(toRecovery(db.donors[i].id), "IllegalTransition")
    /\ ~_writeTimer
    /\ ~_broadcastTimer
    /\ disk = db

(***************************************************************************)
(* C26: in every reachable state nextDonorNo is the number of donors in    *)
(* the store plus one and the donor at position i of the store (the i-th   *)
(* registered since the store was empty) has DonorID String(i); and in     *)
(* every step nextDonorNo changes only by a register that reaches save(),  *)
(* by exactly one and with one donor appended, or by a reset, to 1; the    *)
(* store loses donors only by a reset, and without a reset every donor     *)
(* keeps its position.                                                     *)
(***************************************************************************)
C26_NumberingFollowsStore ==
    /\ [](/\ db.meta.nextDonorNo = Len(db.donors) + 1
          /\ \A i \in 1..Len(db.donors) : db.donors[i].DonorID = String(i))
    /\ [][db'.meta.nextDonorNo # db.meta.nextDonorNo =>
            /\ SaveStep
            /\ \/ /\ req'.op = "register"
                  /\ db'.meta.nextDonorNo = db.meta.nextDonorNo + 1
                  /\ Len(db'.donors) = Len(db.donors) + 1
               \/ /\ req'.op = "reset"
                  /\ db'.meta.nextDonorNo = 1]_vars
    /\ [][(Len(db'.donors) < Len(db.donors) \/ db'.meta # db.meta) =>
            (SaveStep /\ req'.op \in {"register", "reset"})]_vars
    /\ [][req'.op # "reset" \/ ~SaveStep =>
            /\ Len(db'.donors) >= Len(db.donors)
            /\ \A i \in 1..Len(db.donors) : db'.donors[i].id = db.donors[i].id]_vars

\* two donors were registered, the store was reset and a donor registered:
\* it is donor "1" of a store whose next number is 2
C26_Witness ==
    /\ left = MaxFreshSteps - 4
    /\ req.op = "register"
    /\ idSeq = 3
    /\ Len(db.donors) = 1
    /\ db.donors[1].DonorID = "1"
    /\ db.donors[1].id = 3
    /\ db.meta.nextDonorNo = 2

(***************************************************************************)
(* C22, with the timers on time: in every step in which a request reaches  *)
(* save(), a timer that is not pending is set for the time of the request  *)
(* plus its delay, and a timer that is pending stays as it is, set for the *)
(* same time: it is neither cancelled nor postponed. The callback of a     *)
(* timer runs at the time the timer was set for, which is the time of the  *)
(* first save() of the burst plus the delay, and the write then puts the   *)
(* store on the disk and the broadcast puts its view on the wire; and a    *)
(* pending timer always comes to run, whatever requests keep arriving.     *)
(***************************************************************************)
C22_DeadlineOfFirstSave ==
    /\ [][(SaveStep /\ ~_writeTimer) =>
            (_writeTimer' /\ writeDue' = clock + WRITE_DELAY)]_vars
    /\ [][(SaveStep /\ _writeTimer) =>
            (_writeTimer' /\ writeDue' = writeDue /\ writeTimers' = writeTimers)]_vars
    /\ [][(SaveStep /\ ~_broadcastTimer) =>
            (_broadcastTimer' /\ broadcastDue' = clock + BROADCAST_DELAY)]_vars
    /\ [][(SaveStep /\ _broadcastTimer) =>
            (/\ _broadcastTimer'
             /\ broadcastDue' = broadcastDue
             /\ broadcastTimers' = broadcastTimers)]_vars
    /\ [][WriteStep => (clock = writeDue /\ clock' = clock /\ disk' = db)]_vars
    /\ [][BroadcastStep =>
            (clock = broadcastDue /\ clock' = clock /\ wire' = <<lightState(db)>>)]_vars
    /\ [](_writeTimer => writeDue # Unset /\ clock <= writeDue
                            /\ writeDue <= clock + WRITE_DELAY)
    /\ [](_broadcastTimer => broadcastDue # Unset /\ clock <= broadcastDue
                                /\ broadcastDue <= clock + BROADCAST_DELAY)
    /\ (_writeTimer ~> ~_writeTimer)
    /\ (_broadcastTimer ~> ~_broadcastTimer)

\* a burst of two registrations was flushed at the deadline of the first:
\* the second came when the timers were due and had not run yet, the clock
\* stands at the time of the first plus the delay, and the disk and the wire
\* hold both donors
C22_Witness ==
    /\ clock = LoadedClock + WRITE_DELAY
    /\ left = 0
    /\ Len(db.donors) = 2
    /\ db.donors[1].RegisteredAt = LoadedClock
    /\ db.donors[2].RegisteredAt = LoadedClock + WRITE_DELAY
    /\ disk = db
    /\ wire = <<lightState(db)>>
    /\ ~_writeTimer
    /\ ~_broadcastTimer

(***************************************************************************)
(* C23, with the timers on time and under weak fairness of their           *)
(* callbacks: in every reachable state, if the store differs from the      *)
(* snapshot on the disk the write timer is pending, and if a request has   *)
(* been served and the last view on the wire is not the view of the store  *)
(* the broadcast timer is pending; every step that changes the store       *)
(* leaves both timers pending; whenever the store differs from the disk,   *)
(* later the disk holds the store; and once a request has been served,     *)
(* later the wire holds the view of the store.                             *)
(***************************************************************************)
C23_EventuallyFlushed ==
    /\ [](db # disk => _writeTimer /\ writeTimers = 1)
    /\ []((req.op # "" /\ wire # <<lightState(db)>>) =>
             _broadcastTimer /\ broadcastTimers = 1)
    /\ [][db' # db => (_writeTimer' /\ _broadcastTimer')]_vars
    /\ (db # disk ~> db = disk)
    /\ (req.op # "" ~> wire = <<lightState(db)>>)

\* a donor was approved in this run and the timers have run since: the disk
\* and the wire hold the approval
C23_Witness ==
    /\ req.op = "approve"
    /\ clock = LoadedClock + WRITE_DELAY
    /\ ~_writeTimer
    /\ ~_broadcastTimer
    /\ disk = db
    /\ wire = <<lightState(db)>>
    /\ \E i \in Holding(db, Queued) :
          /\ db.donors[i].id = req.id
          /\ db.donors[i].ApprovedAt = LoadedClock
          /\ disk.donors[i].Status = Queued
          /\ wire[1].donors[i].ApprovedAt = LoadedClock

(***************************************************************************)
(* C24: in every step the snapshot on the disk changes only in the         *)
(* callback of the write timer, to the store as it is, and the view on the *)
(* wire changes only in the callback of the broadcast timer, to the view   *)
(* of the store as it is; neither callback changes the store, and a step   *)
(* in which a request reaches save() changes neither the disk nor the      *)
(* wire: so what is written or published is the store as a request left   *)
(* it. The store a bulk fill leaves has all its donors moved (as many as   *)
(* the free beds and the chairs, or the quota, allow), and the store an    *)
(* approve or a move-to-bed changes is the one whose chairs or beds it     *)
(* found below capacity.                                                   *)
(***************************************************************************)
C24_FlushesSeeWholeRequests ==
    /\ [][disk' # disk => (WriteStep /\ db' = db /\ disk' = db)]_vars
    /\ [][wire' # wire =>
            (BroadcastStep /\ db' = db /\ wire' = <<lightState(db)>>)]_vars
    /\ [][(WriteStep \/ BroadcastStep) => db' = db]_vars
    /\ [][SaveStep => (disk' = disk /\ wire' = wire)]_vars
    /\ [][(SaveStep /\ req'.op = "fill-beds-fifo") =>
            /\ Count(db', InBed) = Count(db, InBed) + Min(FreeBeds, Count(db, Queued))
            /\ Count(db', Queued) = Count(db, Queued) - Min(FreeBeds, Count(db, Queued))]_vars
    /\ [][(SaveStep /\ req'.op = "fill-beds-4p2") =>
            /\ Count(db', InBed) =
                  Count(db, InBed) + Min(FreeBeds, PRE_STRICT + WALK_STRICT)
            /\ Count(db', Queued) =
                  Count(db, Queued) - Min(FreeBeds, PRE_STRICT + WALK_STRICT)]_vars
    /\ [][(SaveStep /\ req'.op = "approve") =>
            (Count(db, Queued) < MAX_QUEUE /\ Count(db', Queued) = Count(db, Queued) + 1)]_vars
    /\ [][(SaveStep /\ req'.op = "move-to-bed") =>
            (Count(db, InBed) < MAX_BEDS /\ Count(db', InBed) = Count(db, InBed) + 1)]_vars

\* a FIFO fill took the free beds, several of them, and left donors in the
\* chairs; the write timer has run since and the disk holds the fill whole
C24_Witness ==
    /\ req.op = "fill-beds-fifo"
    /\ left = MaxSteps - 2
    /\ ~_writeTimer
    /\ writeDue = Unset
    /\ disk = db
    /\ Count(disk, InBed) = MAX_BEDS
    /\ Count(disk, Queued) > 0
    /\ Cardinality({i \in Holding(disk, InBed) : Fresh(disk.donors[i].DonationStartAt)}) >= 2

====
